---------------------------- MODULE Spec2Model ----------------------------
(***************************************************************************)
(* A model of rkt_solver: the algebraic kernel (Z4, Axis, Face, Move,      *)
(* AxialMove, Rotation), the move parser and the interval DP of lib.rs.    *)
(***************************************************************************)
EXTENDS Integers, Sequences, FiniteSets, TLC

VARIABLES
    alg,        \* solve: the input slice of moves (Ctx.alg)
    pc,         \* solve: position of the control thread
    up_to_sz,   \* solve: the width level being filled (loop variable sz / Ctx.up_to_sz)
    aux,        \* solve: the DP table (Ctx.aux), cell index -> slot contents
    result,     \* solve: the returned Option<Reconstructed>
    tasks,      \* solve: the threads of the current scope, spawned and still running
    writers,    \* history: the writes <<slot, level, task>> made so far
    str,        \* from_str: the string being parsed
    parsed,     \* from_str: its Result<Move, &str>
    rot_r,      \* rotation kernel: first rotation operand
    rot_s,      \* rotation kernel: second rotation operand
    face,       \* rotation kernel: face operand
    applied,    \* kernel: values computed by the last operation
    rot_t,      \* rotation kernel: third rotation operand
    mv,         \* axial-move kernel: move operand
    ax_a,       \* axial-move kernel: first AxialMove operand
    ax_b,       \* axial-move kernel: second AxialMove operand
    z_a,        \* Z4 kernel: first operand
    z_b,        \* Z4 kernel: second operand
    z_c         \* Z4 kernel: third operand

vars == <<alg, pc, up_to_sz, aux, result, tasks, writers, str, parsed, rot_r, rot_s, face, applied,
          rot_t, mv, ax_a, ax_b, z_a, z_b, z_c>>

solveVars == <<alg, pc, up_to_sz, aux, result, tasks, writers>>
parseVars == <<str, parsed>>
rotVars == <<rot_r, rot_s, face, applied>>
kernelVars == <<rot_t, mv, ax_a, ax_b, z_a, z_b, z_c>>

None == <<"None">>
Some(v) == <<"Some", v>>
Unwrap(o) == o[2]

\* a panic (unwrap of None, unreachable!) as the value of the operation
Panicked == <<"panic">>

Min(a, b) == IF a < b THEN a ELSE b

ZeroBased(s) == [i \in 0..(Len(s) - 1) |-> s[i + 1]]

(***************************************************************************)
(* data/z4.rs                                                              *)
(***************************************************************************)
Z4ALL == <<0, 1, 2, 3>>
Z4 == {Z4ALL[i] : i \in 1..4}

U8 == 256

from_val(val) == val % 4

\* a negation that returns its argument
Z4keep(a) == a

Z4neg(a) == from_val((U8 - a) % U8)

Z4add(a, b) == from_val(a + b)

Z4sub(a, b) == from_val((a + U8 - b) % U8)

(***************************************************************************)
(* types.rs: the same Z4 with next and prev and loops over them            *)
(***************************************************************************)
TypesZ4next(a) == CASE a = 0 -> 1 [] a = 1 -> 2 [] a = 2 -> 3 [] a = 3 -> 0

TypesZ4prev(a) == TypesZ4next(TypesZ4next(TypesZ4next(a)))

RECURSIVE TypesZ4neg_loop(_, _)
TypesZ4neg_loop(self, res) ==
    IF self = 0 THEN res ELSE TypesZ4neg_loop(TypesZ4prev(self), TypesZ4prev(res))

TypesZ4neg(a) == TypesZ4neg_loop(a, 0)

RECURSIVE TypesZ4add(_, _)
TypesZ4add(self, rhs) ==
    IF rhs = 0 THEN self ELSE TypesZ4add(TypesZ4next(self), TypesZ4prev(rhs))

TypesZ4sub(a, b) == TypesZ4add(a, TypesZ4neg(b))

(***************************************************************************)
(* data/basic.rs: Axis, Face, Move                                         *)
(***************************************************************************)
Axis == {"X", "Y", "Z"}

\* the axes in the order of their discriminants: [Axis::X, Axis::Y, Axis::Z]
AxisList == <<"X", "Y", "Z">>

AxisOrd(a) == CASE a = "X" -> 0 [] a = "Y" -> 1 [] a = "Z" -> 2

next(a) == CASE a = "X" -> "Y" [] a = "Y" -> "Z" [] a = "Z" -> "X"

FaceALL == <<"R", "U", "F", "L", "D", "B">>
Face == {FaceALL[i] : i \in 1..6}

FaceOrdMap == [f \in Face |-> CHOOSE i \in 0..5 : FaceALL[i + 1] = f]

FaceOrd(f) == FaceOrdMap[f]

FaceNew(axis, neg) ==
    CASE axis = "X" /\ ~neg -> "R"
      [] axis = "Y" /\ ~neg -> "U"
      [] axis = "Z" /\ ~neg -> "F"
      [] axis = "X" /\ neg -> "L"
      [] axis = "Y" /\ neg -> "D"
      [] axis = "Z" /\ neg -> "B"

FaceAxisMap == [R |-> "X", L |-> "X", U |-> "Y", D |-> "Y", F |-> "Z", B |-> "Z"]

FaceAxis(f) == FaceAxisMap[f]

FaceNegMap == [R |-> FALSE, U |-> FALSE, F |-> FALSE, L |-> TRUE, D |-> TRUE, B |-> TRUE]

FaceNeg(f) == FaceNegMap[f]

opposite(f) == FaceNew(FaceAxis(f), ~FaceNeg(f))

MoveNew(f, by) == [face |-> f, by |-> by]

Move == [face : Face, by : Z4]

MoveAxis(m) == FaceAxis(m.face)

(***************************************************************************)
(* data/fmt.rs: Display and FromStr for Move.  A string is a sequence of   *)
(* one-character strings.                                                  *)
(***************************************************************************)
Ok(v) == <<"Ok", v>>
Err(e) == <<"Err", e>>

strip_prefix(s, p) ==
    IF Len(s) >= Len(p) /\ SubSeq(s, 1, Len(p)) = p
        THEN Some(SubSeq(s, Len(p) + 1, Len(s)))
        ELSE None

ParseAmount(rest) ==
    CASE rest = <<>> -> Ok(1)
      [] rest = <<"2">> -> Ok(2)
      [] rest = <<"'">> -> Ok(3)
      [] OTHER -> Err("bad amount")

RECURSIVE from_str_loop(_, _)
from_str_loop(s, i) ==
    IF i > Len(FaceALL) THEN Err("bad face")
    ELSE LET rest == strip_prefix(s, <<FaceALL[i]>>)
         IN  IF rest # None
                 THEN LET by == ParseAmount(Unwrap(rest))
                      IN  IF by[1] = "Ok" THEN Ok(MoveNew(FaceALL[i], by[2])) ELSE by
                 ELSE from_str_loop(s, i + 1)

from_str(s) == from_str_loop(s, 1)

MoveDisplay(m) ==
    <<m.face>> \o (CASE m.by = 0 -> <<"0">>
                     [] m.by = 1 -> <<>>
                     [] m.by = 2 -> <<"2">>
                     [] m.by = 3 -> <<"'">>)

(***************************************************************************)
(* data/rotation.rs: Rotation is a byte packing a permutation of the four  *)
(* body diagonals, two bits each.                                          *)
(***************************************************************************)
UFR == 0
UFL == 1
DFR == 2
UBR == 3

DiagonalALL == ZeroBased(<<UFR, UFL, DFR, UBR>>)

from_u8(val) == DiagonalALL[val % 4]

to_array(b) == [i \in 0..3 |-> from_u8(b \div (4 ^ i))]

from_array(arr) == arr[0] + 4 * arr[1] + 16 * arr[2] + 64 * arr[3]

DATA ==
    ZeroBased(<<
        ZeroBased(<<UFR, UBR, UFL, DFR>>),
        ZeroBased(<<UFR, UFL, DFR, UBR>>),
        ZeroBased(<<UFR, DFR, UBR, UFL>>),
        ZeroBased(<<UFR, DFR, UFL, UBR>>),
        ZeroBased(<<UFR, UBR, DFR, UFL>>),
        ZeroBased(<<UFR, UFL, UBR, DFR>>)
    >>)

rotate_left(arr, k) == [i \in 0..3 |-> arr[(i + k) % 4]]
rotate_right(arr, k) == [i \in 0..3 |-> arr[(i + 4 - k) % 4]]

ID == 228

ALL == [idx \in 0..23 |-> from_array(rotate_right(DATA[idx % 6], idx \div 6))]

Rotation == {ALL[i] : i \in 0..23}

indexMAP ==
    [b \in 0..255 |->
        IF b \in Rotation THEN CHOOSE i \in 0..23 : ALL[i] = b /\ \A j \in (i + 1)..23 : ALL[j] # b
        ELSE 0]

index(r) == indexMAP[r]

get_(r, f) ==
    LET this == to_array(r)
        lookup == DATA[FaceOrd(f)]
        raw == [i \in 0..3 |-> this[lookup[i]]]
        pos == CHOOSE i \in 0..3 : raw[i] = UFR /\ \A j \in (i + 1)..3 : raw[j] # UFR
        looked_up == rotate_left(raw, pos)
        hit(i) == /\ DATA[i][1] = looked_up[1]
                  /\ DATA[i][2] = looked_up[2]
                  /\ DATA[i][3] = looked_up[3]
        first == CHOOSE i \in 0..5 : hit(i) /\ \A j \in 0..(i - 1) : ~hit(j)
    IN  FaceALL[first + 1]

getLUT ==
    [b \in 0..255 |-> [j \in 0..5 |-> IF b \in Rotation THEN get_(b, FaceALL[j + 1]) ELSE "R"]]

get(r, f) == getLUT[r][FaceOrd(f)]

\* an inverse that returns its argument
inv_self(r) == r

inv_(r) ==
    LET this == to_array(r)
    IN  from_array([d \in 0..3 |->
            IF \E i \in 0..3 : this[i] = d
                THEN from_u8(CHOOSE i \in 0..3 : this[i] = d /\ \A j \in (i + 1)..3 : this[j] # d)
                ELSE UFR])

invLUT == [b \in 0..255 |-> IF b \in Rotation THEN inv_(b) ELSE ID]

inv(r) == invLUT[r]

apply_(r, f) == get(inv(r), f)

applyLUT ==
    [b \in 0..255 |-> [j \in 0..5 |-> IF b \in Rotation THEN apply_(b, FaceALL[j + 1]) ELSE "R"]]

apply(r, f) == applyLUT[r][FaceOrd(f)]

\* mul_ with the operands composed the other way round
mul_reversed(lhs, rhs) ==
    LET this == to_array(lhs)
        that == to_array(rhs)
    IN  from_array([i \in 0..3 |-> that[this[i]]])

mul_(lhs, rhs) ==
    LET this == to_array(lhs)
        that == to_array(rhs)
    IN  from_array([i \in 0..3 |-> this[that[i]]])

mulLUT == [i \in 0..23 |-> [j \in 0..23 |-> mul_(ALL[i], ALL[j])]]

mul(lhs, rhs) == mulLUT[index(lhs)][index(rhs)]

\* impl Mul<Rotation> for Face / Move / Axis
FaceMul(f, r) == apply(r, f)
MoveMul(m, r) == MoveNew(FaceMul(m.face, r), m.by)
AxisMul(a, r) == FaceAxis(FaceMul(FaceNew(a, FALSE), r))

\* Rotation::axial: out[data[i]] = data[i - by] for i in Z4::ALL, later writes
\* over earlier ones, entries never written stay UFR
axial(axis, by) ==
    LET data == DATA[FaceOrd(FaceNew(axis, FALSE))]
    IN  from_array([d \in 0..3 |->
            IF \E i \in 0..3 : data[i] = d
                THEN data[Z4sub(CHOOSE i \in 0..3 : data[i] = d /\ \A j \in (i + 1)..3 : data[j] # d,
                                by)]
                ELSE UFR])

AxialRotationNew(axis, by) == <<axis, by>>

\* to_axials, second branch: the amount of the turn about the fixed axis
axial_by(on_next, neg) ==
    CASE on_next /\ ~neg -> 0
      [] ~on_next /\ neg -> 1
      [] on_next /\ neg -> 2
      [] ~on_next /\ ~neg -> 3

\* a first axial rotation that turns the other way
first_axial_swapped(f) ==
    CASE f = "R" -> Panicked
      [] f = "U" -> AxialRotationNew("Z", 1)
      [] f = "F" -> AxialRotationNew("Y", 3)
      [] f = "L" -> AxialRotationNew("Y", 2)
      [] f = "D" -> AxialRotationNew("Z", 3)
      [] f = "B" -> AxialRotationNew("Y", 1)

\* to_axials, third branch: the first axial rotation, keyed on where R lands
first_axial(f) ==
    CASE f = "R" -> Panicked
      [] f = "U" -> AxialRotationNew("Z", 3)
      [] f = "F" -> AxialRotationNew("Y", 1)
      [] f = "L" -> AxialRotationNew("Y", 2)
      [] f = "D" -> AxialRotationNew("Z", 1)
      [] f = "B" -> AxialRotationNew("Y", 3)

\* rest.to_axials().next().unwrap() appended to first
push_second(first, rest_axials) ==
    IF rest_axials = Panicked \/ rest_axials = <<>> THEN Panicked
    ELSE <<first, rest_axials[1]>>

\* Rotation::to_axials: the sequence of yielded AxialRotations, or Panicked
RECURSIVE to_axials(_)
to_axials(r) ==
    LET r_id == FaceMul("R", r) = "R"
        u_id == FaceMul("U", r) = "U"
        f_id == FaceMul("F", r) = "F"
    IN  IF r_id /\ u_id /\ f_id THEN <<>>
        ELSE IF r_id \/ u_id \/ f_id
            THEN LET id == IF r_id THEN "R" ELSE IF u_id THEN "U" ELSE "F"
                     axis == FaceAxis(id)
                     app == apply(r, FaceNew(next(FaceAxis(id)), FALSE))
                 IN  <<AxialRotationNew(axis, axial_by(FaceAxis(app) = next(FaceAxis(id)),
                                                      FaceNeg(app)))>>
        ELSE LET first == first_axial(apply(r, "R"))
             IN  IF first = Panicked THEN Panicked
                 ELSE push_second(first, to_axials(mul(inv(axial(first[1], first[2])), r)))


(***************************************************************************)
(* data/basic.rs: AxialMove                                                *)
(***************************************************************************)
\* AxialMove::new without the normalisation of the axis
AxialMoveRaw(axis, pos, neg) == [axis |-> axis, pos |-> pos, neg |-> neg]

AxialMoveNew(axis, pos, neg) ==
    [axis |-> IF pos = 0 /\ neg = 0 THEN "X" ELSE axis, pos |-> pos, neg |-> neg]

ZERO == AxialMoveNew("X", 0, 0)

is_zero(a) == a.pos = 0 /\ a.neg = 0

AxialMoveInv(a) == AxialMoveNew(a.axis, Z4neg(a.pos), Z4neg(a.neg))

\* an addition that never checks the axes
AxialMoveAddUnchecked(a, b) ==
    IF is_zero(a) THEN Some(b)
    ELSE IF is_zero(b) THEN Some(a)
    ELSE Some(AxialMoveNew(a.axis, Z4add(a.pos, b.pos), Z4add(a.neg, b.neg)))

\* AxialMove::add, the checked addition: None on mismatched axes
AxialMoveAdd(a, b) ==
    IF is_zero(a) THEN Some(b)
    ELSE IF is_zero(b) THEN Some(a)
    ELSE IF a.axis # b.axis THEN None
    ELSE Some(AxialMoveNew(a.axis, Z4add(a.pos, b.pos), Z4add(a.neg, b.neg)))

AxialMoveFrom(m) ==
    IF FaceNeg(m.face)
        THEN AxialMoveNew(MoveAxis(m), 0, m.by)
        ELSE AxialMoveNew(MoveAxis(m), m.by, 0)

\* impl Add / Sub for AxialMove: unwrap of the checked addition.  A panic is
\* the value Panic, which every later operation propagates.
Panic == [panic |-> TRUE]

AddOp(a, b) ==
    IF a = Panic \/ b = Panic THEN Panic
    ELSE LET s == AxialMoveAdd(a, b) IN IF s = None THEN Panic ELSE Unwrap(s)

NegOp(a) == IF a = Panic THEN Panic ELSE AxialMoveInv(a)

SubOp(a, b) == AddOp(a, NegOp(b))

\* the rotation action on an AxialMove without the swap of (pos, neg)
AxialMoveMulNoSwap(a, r) ==
    IF a = Panic THEN Panic
    ELSE AxialMoveNew(FaceAxis(FaceMul(FaceNew(a.axis, FALSE), r)), a.pos, a.neg)

\* impl Mul<Rotation> for AxialMove
AxialMoveMul(a, r) ==
    IF a = Panic THEN Panic
    ELSE LET new == FaceMul(FaceNew(a.axis, FALSE), r)
         IN  IF FaceNeg(new)
                 THEN AxialMoveNew(FaceAxis(new), a.neg, a.pos)
                 ELSE AxialMoveNew(FaceAxis(new), a.pos, a.neg)

(***************************************************************************)
(* dp.rs: the mixed-radix index of a DP key (usize, usize, Rotation,       *)
(* AxialMove) in a table built for Runtime (n + 1, n + 1, (), ()).         *)
(***************************************************************************)
RotationSize == 24
AxialMoveSize == 3 * 4 * 4

AxialMoveIndex(a) == (AxisOrd(a.axis) * 4 + a.pos) * 4 + a.neg

to_index(idx, n) ==
    ((idx[1] * (n + 1) + idx[2]) * RotationSize + index(idx[3])) * AxialMoveSize
        + AxialMoveIndex(idx[4])

size(n) == (n + 1) * (n + 1) * RotationSize * AxialMoveSize

(***************************************************************************)
(* lib.rs: the DP.  A Val is None or Some(<<cost, choice>>); a choice is   *)
(* None (base case) or Some(<<k, r1, t1>>).  A slot that was never written *)
(* holds Uninit.                                                           *)
(***************************************************************************)
Uninit == <<"Uninit">>

Impossible == <<"Impossible">>
Just(rot) == <<"Just", rot>>

\* base_case rejecting the empty interval too (l >= r for l > r)
base_case_strict(a, idx) ==
    LET l == idx[1]  r == idx[2]  rot == idx[3]  ax == idx[4]
    IN  IF l >= r THEN Some(Impossible)
        ELSE IF ~is_zero(ax) /\ AxisMul(MoveAxis(a[l + 1]), rot) # ax.axis THEN Some(Impossible)
        ELSE None

\* base_case accepting a non-zero ax on the empty interval
base_case_any_target(a, idx) ==
    LET l == idx[1]  r == idx[2]  rot == idx[3]  ax == idx[4]
    IN  IF l > r THEN Some(Impossible)
        ELSE IF l = r THEN Some(Just(rot))
        ELSE IF ~is_zero(ax) /\ AxisMul(MoveAxis(a[l + 1]), rot) # ax.axis THEN Some(Impossible)
        ELSE None

base_case(a, idx) ==
    LET l == idx[1]  r == idx[2]  rot == idx[3]  ax == idx[4]
    IN  IF l > r THEN Some(Impossible)
        ELSE IF l = r THEN Some(IF is_zero(ax) THEN Just(rot) ELSE Impossible)
        ELSE IF ~is_zero(ax) /\ AxisMul(MoveAxis(a[l + 1]), rot) # ax.axis THEN Some(Impossible)
        ELSE None

\* apply_choice with r1 * r0 in place of -r1 * r0
apply_choice_no_inverse(a, idx, choice) ==
    LET l == idx[1]  r == idx[2]  r0 == idx[3]  t0 == idx[4]
        k == choice[1]  r1 == choice[2]  t1 == choice[3]
        f1 == a[l + 1]
        lifted == AxialMoveFrom(MoveMul(a[l + 1], r1))
        t2 == AddOp(AddOp(NegOp(AxialMoveFrom(MoveMul(f1, r1))), lifted), t1)
        rot2 == mul(r1, r0)
        ax2 == SubOp(t0, AxialMoveMul(AddOp(lifted, t1), rot2))
    IN  IF t2 = Panic \/ ax2 = Panic THEN Panicked
        ELSE <<f1, <<l + 1, k, r1, t2>>, <<k, r, rot2, ax2>>>>

\* apply_choice: <<f1, sub1, sub2>>, or Panicked when an axial addition unwraps None
apply_choice(a, idx, choice) ==
    LET l == idx[1]  r == idx[2]  r0 == idx[3]  t0 == idx[4]
        k == choice[1]  r1 == choice[2]  t1 == choice[3]
        f1 == a[l + 1]
        lifted == AxialMoveFrom(MoveMul(a[l + 1], r1))
        t2 == AddOp(AddOp(NegOp(AxialMoveFrom(MoveMul(f1, r1))), lifted), t1)
        rot2 == mul(inv(r1), r0)
        ax2 == SubOp(t0, AxialMoveMul(AddOp(lifted, t1), rot2))
    IN  IF t2 = Panic \/ ax2 = Panic THEN Panicked
        ELSE <<f1, <<l + 1, k, r1, t2>>, <<k, r, rot2, ax2>>>>

\* a read of a slot that is not final: the debug build panics in get_full, the
\* release build reads memory that is uninitialised or being written.  The
\* outcome is this value, which every later step hands on.
Premature == <<"premature">>

Failure(v) == v = Panicked \/ v = Premature

post_computation(f1, sub1, sub2) ==
    IF Failure(sub1) THEN sub1
    ELSE IF Failure(sub2) THEN sub2
    ELSE IF sub1 = None \/ sub2 = None THEN None
    ELSE Some((IF f1.by # 0 THEN 1 ELSE 0) + Unwrap(sub1) + Unwrap(sub2))

\* min_into recording the cost without the choice
min_into_no_choice(min, new, choice) ==
    IF Failure(new) THEN new
    ELSE IF Failure(min) THEN min
    ELSE IF min = None /\ new # None THEN Some(<<Unwrap(new), None>>)
    ELSE IF min # None /\ new # None /\ Unwrap(new) < Unwrap(min)[1]
        THEN Some(<<Unwrap(new), None>>)
    ELSE min

\* min_into with <= for <: the last choice of the least cost wins
min_into_last(min, new, choice) ==
    IF Failure(new) THEN new
    ELSE IF Failure(min) THEN min
    ELSE IF min = None /\ new # None THEN Some(<<Unwrap(new), Some(choice)>>)
    ELSE IF min # None /\ new # None /\ Unwrap(new) <= Unwrap(min)[1]
        THEN Some(<<Unwrap(new), Some(choice)>>)
    ELSE min

min_into(min, new, choice) ==
    IF Failure(new) THEN new
    ELSE IF Failure(min) THEN min
    ELSE IF min = None /\ new # None THEN Some(<<Unwrap(new), Some(choice)>>)
    ELSE IF min # None /\ new # None /\ Unwrap(new) < Unwrap(min)[1]
        THEN Some(<<Unwrap(new), Some(choice)>>)
    ELSE min

\* the base value without the charge for a non-identity rotation
BaseValFree(rot) == Some(<<0, None>>)

BaseVal(rot) == Some(<<IF rot = ID THEN 0 ELSE 1, None>>)

\* Ctx as a thread sees it: alg, the table aux, the level up_to_sz being filled,
\* and whether the thread has panicked
Ctx(a, table, sz) ==
    [alg |-> a, aux |-> table, up_to_sz |-> sz, by_need |-> FALSE, panicked |-> FALSE]

\* the Ctx after the fill without its table: the fill writes compute(ctx, idx)
\* into every slot, level by level, and compute reads only slots of smaller
\* width, so a slot's contents are compute over those slots
FilledCtx(a) ==
    [alg |-> a, aux |-> <<>>, up_to_sz |-> Len(a) + 1, by_need |-> TRUE, panicked |-> FALSE]

\* Slot::get: assume_init_ref of what the slot holds
slot_get(v) == IF v = Uninit THEN Premature ELSE v

RECURSIVE get_full(_, _)
RECURSIVE compute(_, _)

\* Ctx::get: the cost in the slot
ctx_get(ctx, idx) ==
    LET v == get_full(ctx, idx)
    IN  IF Failure(v) THEN v
        ELSE IF v = None THEN None
        ELSE Some(Unwrap(v)[1])

\* let sub1 = ctx.get(sub1); let sub2 = ctx.get(sub2).  Without the table,
\* post_computation uses neither cost when either is None, so when the narrower
\* slot holds None the wider one is not evaluated and is reported as None too.
read_subs(ctx, sub1, sub2) ==
    IF ~ctx.by_need THEN <<ctx_get(ctx, sub1), ctx_get(ctx, sub2)>>
    ELSE IF sub2[2] - sub2[1] < sub1[2] - sub1[1]
        THEN LET s2 == ctx_get(ctx, sub2)
             IN  IF s2 = None THEN <<None, None>> ELSE <<ctx_get(ctx, sub1), s2>>
        ELSE LET s1 == ctx_get(ctx, sub1)
             IN  IF s1 = None THEN <<None, None>> ELSE <<s1, ctx_get(ctx, sub2)>>

\* let new = post_computation(f1, ctx.get(sub1), ctx.get(sub2))
new_cost(f1, subs) == post_computation(f1, subs[1], subs[2])

\* let (f1, sub1, sub2) = apply_choice(ctx, idx, choice);
\* let new = post_computation(f1, ctx.get(sub1), ctx.get(sub2)), from the value
\* ac of apply_choice
choice_new(ctx, ac) ==
    IF ac = Panicked THEN Panicked
    ELSE new_cost(ac[1], read_subs(ctx, ac[2], ac[3]))

\* the choice (k, r1, t1) the loops reach at k, r1, t1_p, t1_n
choice_at(a, idx, k, r1, t1_p, t1_n) ==
    <<k, r1, AxialMoveNew(MoveAxis(MoveMul(a[idx[1] + 1], r1)), t1_p, t1_n)>>

\* new for every choice of the loops, by k, the index of r1, t1_p and t1_n.  The
\* value does not depend on min, so the loops below look it up.
new_costs(ctx, idx) ==
    [k \in (idx[1] + 1)..idx[2] |-> [i \in 0..23 |-> [t1_p \in Z4 |-> [t1_n \in Z4 |->
        choice_new(ctx, apply_choice(ctx.alg, idx,
                                     choice_at(ctx.alg, idx, k, ALL[i], t1_p, t1_n)))]]]]

\* one iteration of the innermost loop body of compute: min_into(&mut min, new, choice)
compute_step(a, idx, news, min, k, r1, t1_p, t1_n) ==
    min_into(min, news[k][index(r1)][t1_p][t1_n], choice_at(a, idx, k, r1, t1_p, t1_n))

\* The four loops of compute.  Each runs its iterations lo..hi in order, handing
\* min from one to the next; the range is walked by halves, which keeps the
\* nesting of the evaluation logarithmic in its length.
RECURSIVE compute_n(_, _, _, _, _, _, _, _, _)
compute_n(a, idx, news, min, k, r1, t1_p, lo, hi) ==
    IF lo > hi \/ Failure(min) THEN min
    ELSE IF lo = hi THEN compute_step(a, idx, news, min, k, r1, t1_p, Z4ALL[lo])
    ELSE compute_n(a, idx, news, compute_n(a, idx, news, min, k, r1, t1_p, lo, (lo + hi) \div 2),
                   k, r1, t1_p, ((lo + hi) \div 2) + 1, hi)

RECURSIVE compute_p(_, _, _, _, _, _, _, _)
compute_p(a, idx, news, min, k, r1, lo, hi) ==
    IF lo > hi \/ Failure(min) THEN min
    ELSE IF lo = hi THEN compute_n(a, idx, news, min, k, r1, Z4ALL[lo], 1, 4)
    ELSE compute_p(a, idx, news, compute_p(a, idx, news, min, k, r1, lo, (lo + hi) \div 2),
                   k, r1, ((lo + hi) \div 2) + 1, hi)

RECURSIVE compute_r1(_, _, _, _, _, _, _)
compute_r1(a, idx, news, min, k, lo, hi) ==
    IF lo > hi \/ Failure(min) THEN min
    ELSE IF lo = hi THEN compute_p(a, idx, news, min, k, ALL[lo], 1, 4)
    ELSE compute_r1(a, idx, news, compute_r1(a, idx, news, min, k, lo, (lo + hi) \div 2),
                    k, ((lo + hi) \div 2) + 1, hi)

RECURSIVE compute_k(_, _, _, _, _, _)
compute_k(a, idx, news, min, lo, hi) ==
    IF lo > hi \/ Failure(min) THEN min
    ELSE IF lo = hi THEN compute_r1(a, idx, news, min, lo, 0, 23)
    ELSE compute_k(a, idx, news, compute_k(a, idx, news, min, lo, (lo + hi) \div 2),
                   ((lo + hi) \div 2) + 1, hi)

compute(ctx, idx) ==
    LET b == base_case(ctx.alg, idx)
    IN  IF b = Some(Impossible) THEN None
        ELSE IF b # None THEN BaseVal(Unwrap(b)[2])
        ELSE compute_k(ctx.alg, idx, new_costs(ctx, idx), None, idx[1] + 1, idx[2])

\* Ctx::get_full.  With the table: the slot's contents, or Premature for a slot
\* of a level not yet joined, of negative width, or never written.
get_full(ctx, idx) ==
    IF ctx.by_need THEN compute(ctx, idx)
    ELSE IF idx[1] > idx[2] \/ idx[2] - idx[1] >= ctx.up_to_sz THEN Premature
    ELSE slot_get(ctx.aux[to_index(idx, Len(ctx.alg))])


\* post_reconstruction pushing the move after the two sub-programs
post_reconstruction_move_last(f1, sub1, sub2) ==
    sub1 \o sub2 \o (IF f1.by # 0 THEN <<<<"Move", f1>>>> ELSE <<>>)

post_reconstruction(f1, sub1, sub2) ==
    (IF f1.by # 0 THEN <<<<"Move", f1>>>> ELSE <<>>) \o sub1 \o sub2

RootIdx(a) == <<0, Len(a), ID, ZERO>>

\* reconstruct; root is the contents of the root slot, which the fill recorded
RECURSIVE reconstruct(_, _, _)

\* Some(post_reconstruction(f1, sub1?, sub2?))
rec_join(f1, sub1, sub2) ==
    IF Failure(sub1) \/ sub1 = None THEN sub1
    ELSE IF Failure(sub2) \/ sub2 = None THEN sub2
    ELSE Some(post_reconstruction(f1, Unwrap(sub1), Unwrap(sub2)))

\* reconstruct the two sub-states apply_choice names
rec_split(ctx, root, ac) ==
    IF ac = Panicked THEN Panicked
    ELSE rec_join(ac[1], reconstruct(ctx, ac[2], root), reconstruct(ctx, ac[3], root))

\* the slot's contents v: None gives None, a stored choice is applied
rec_slot(ctx, idx, root, v) ==
    IF Failure(v) THEN v
    ELSE IF v = None THEN None
    ELSE IF Unwrap(v)[2] = None THEN Panicked
    ELSE rec_split(ctx, root, apply_choice(ctx.alg, idx, Unwrap(Unwrap(v)[2])))

reconstruct(ctx, idx, root) ==
    LET b == base_case(ctx.alg, idx)
    IN  IF b = Some(Impossible) THEN None
        ELSE IF b # None
            THEN Some(IF Unwrap(b)[2] = ID THEN <<>> ELSE <<<<"Rot", Unwrap(b)[2]>>>>)
        ELSE rec_slot(ctx, idx, root, IF idx = RootIdx(ctx.alg) THEN root ELSE get_full(ctx, idx))

(***************************************************************************)
(* solve                                                                   *)
(***************************************************************************)
MaxLen == 1
NumMoves == 6

MoveList ==
    <<MoveNew("R", 1), MoveNew("R", 3), MoveNew("U", 3), MoveNew("L", 1), MoveNew("R", 0),
      MoveNew("U", 2), MoveNew("F", 1), MoveNew("D", 2), MoveNew("B", 3), MoveNew("L", 3),
      MoveNew("R", 2), MoveNew("U", 1)>>

Alphabet == {MoveList[i] : i \in 1..Min(NumMoves, Len(MoveList))}

\* the two-move inputs of the concrete scenarios ([R, R'], [R, L]) and variants
Scenarios ==
    {<<m1, m2>> : m1 \in {MoveNew("R", 1), MoveNew("U", 2)},
                  m2 \in {MoveNew("R", 3), MoveNew("L", 1), MoveNew("U", 3), MoveNew("R", 1),
                          MoveNew("U", 2), MoveNew("D", 2), MoveNew("R", 0), MoveNew("F", 3)}}

Inputs == UNION {[1..n -> Alphabet] : n \in 0..MaxLen} \cup Scenarios

Idle == <<"idle">>

ParseIdle == str = Idle /\ parsed = Idle

RotIdle == rot_r = Idle /\ rot_s = Idle /\ face = Idle /\ applied = Idle

OperandsIdle ==
    /\ rot_t = Idle /\ mv = Idle /\ ax_a = Idle /\ ax_b = Idle
    /\ z_a = Idle /\ z_b = Idle /\ z_c = Idle

KernelIdle == ParseIdle /\ RotIdle /\ OperandsIdle

Init ==
    /\ alg \in Inputs
    /\ pc = "fill"
    /\ up_to_sz = 0
    /\ aux = Uninit
    /\ result = Idle
    /\ tasks = Idle /\ writers = Idle
    /\ KernelIdle

\* one pass of the loop over sz: every slot of width up_to_sz is written and the
\* scope joins; aux records the root slot once its level is filled
FillLevel ==
    /\ pc = "fill"
    /\ up_to_sz <= Len(alg)
    /\ aux' = IF up_to_sz = Len(alg) THEN get_full(FilledCtx(alg), RootIdx(alg)) ELSE aux
    /\ up_to_sz' = up_to_sz + 1
    /\ UNCHANGED <<alg, pc, result, tasks, writers, parseVars, rotVars, kernelVars>>

Reconstruct ==
    /\ pc = "fill"
    /\ up_to_sz > Len(alg)
    /\ result' = reconstruct(FilledCtx(alg), RootIdx(alg), aux)
    /\ pc' = "done"
    /\ UNCHANGED <<alg, up_to_sz, aux, tasks, writers, parseVars, rotVars, kernelVars>>

Next == FillLevel \/ Reconstruct

Spec == Init /\ [][Next]_vars

SolveIdle ==
    /\ alg = Idle /\ pc = Idle /\ up_to_sz = Idle /\ aux = Idle /\ result = Idle
    /\ tasks = Idle /\ writers = Idle

(***************************************************************************)
(* Parsing one move: a caller parses a string, or formats a move and       *)
(* parses the text again.                                                  *)
(***************************************************************************)
MaxStrLen == 2

ParseChars == {"R", "U", "F", "L", "D", "B", "X", "2", "'", "0", "3"}

Strings == UNION {[1..n -> ParseChars] : n \in 0..MaxStrLen}

InitParse ==
    /\ str \in Strings
    /\ parsed = Idle
    /\ SolveIdle /\ RotIdle /\ OperandsIdle

ParseStr ==
    /\ parsed = Idle
    /\ parsed' = from_str(str)
    /\ UNCHANGED <<str, solveVars, rotVars, kernelVars>>

FormatMove ==
    /\ parsed # Idle
    /\ \E m \in Move :
        /\ str' = MoveDisplay(m)
        /\ parsed' = Idle
    /\ UNCHANGED <<solveVars, rotVars, kernelVars>>

NextParse == ParseStr \/ FormatMove

SpecParse == InitParse /\ [][NextParse]_vars

(***************************************************************************)
(* The rotation action on faces: two rotations are composed and the        *)
(* product applied to a face.                                              *)
(***************************************************************************)
InitRot ==
    /\ rot_r \in Rotation
    /\ rot_s \in Rotation
    /\ face \in Face
    /\ applied = Idle
    /\ SolveIdle /\ ParseIdle /\ OperandsIdle

\* applied = <<"applied", f * (r * s), (f * s) * r, (f * r) * s, f * ID>>
ApplyProduct ==
    /\ applied = Idle
    /\ applied' = <<"applied",
                    apply(mul(rot_r, rot_s), face),
                    apply(rot_r, apply(rot_s, face)),
                    apply(rot_s, apply(rot_r, face)),
                    apply(ID, face)>>
    /\ UNCHANGED <<rot_r, rot_s, face, solveVars, parseVars, kernelVars>>

NextRot == ApplyProduct

SpecRot == InitRot /\ [][NextRot]_vars


(***************************************************************************)
(* A cube simulator, independent of the solver, to state what a program    *)
(* does to the cube.  A sticker is <<position, normal>>; a state maps each *)
(* sticker to where it now is.                                             *)
(***************************************************************************)
Coord == {-1, 0, 1}

Dot(u, v) == u[1] * v[1] + u[2] * v[2] + u[3] * v[3]

Normals ==
    {<<1, 0, 0>>, <<-1, 0, 0>>, <<0, 1, 0>>, <<0, -1, 0>>, <<0, 0, 1>>, <<0, 0, -1>>}

Stickers == {<<<<x, y, z>>, d>> : x \in Coord, y \in Coord, z \in Coord, d \in Normals}
                \cap {st \in (Coord \X Coord \X Coord) \X Normals : Dot(st[1], st[2]) = 1}

\* a quarter turn of space, clockwise seen from the positive end of the axis
Quarter(axis, v) ==
    CASE axis = "X" -> <<v[1], v[3], -v[2]>>
      [] axis = "Y" -> <<-v[3], v[2], v[1]>>
      [] axis = "Z" -> <<v[2], -v[1], v[3]>>

RECURSIVE QuarterPow(_, _, _)
QuarterPow(axis, v, k) == IF k = 0 THEN v ELSE QuarterPow(axis, Quarter(axis, v), k - 1)

FaceNormal(f) ==
    CASE f = "R" -> <<1, 0, 0>> [] f = "L" -> <<-1, 0, 0>>
      [] f = "U" -> <<0, 1, 0>> [] f = "D" -> <<0, -1, 0>>
      [] f = "F" -> <<0, 0, 1>> [] f = "B" -> <<0, 0, -1>>

\* the clockwise quarter turn of face f, as a map of stickers
TurnFn ==
    [f \in Face |->
        [st \in Stickers |->
            IF Dot(st[1], FaceNormal(f)) = 1
                THEN LET k == IF FaceNeg(f) THEN 3 ELSE 1
                     IN  <<QuarterPow(FaceAxis(f), st[1], k), QuarterPow(FaceAxis(f), st[2], k)>>
                ELSE st]]

Solved == [st \in Stickers |-> st]

RECURSIVE Turned(_, _, _)
Turned(g, f, by) ==
    IF by = 0 THEN g ELSE Turned([st \in Stickers |-> TurnFn[f][g[st]]], f, by - 1)

RECURSIVE NetOfMoves(_, _, _)
NetOfMoves(g, a, i) ==
    IF i > Len(a) THEN g ELSE NetOfMoves(Turned(g, a[i].face, a[i].by), a, i + 1)

\* the net effect of the moves of alg, applied in order
NetAlg(a) == NetOfMoves(Solved, a, 1)

\* the ways a Rotation entry can re-orient the frame of the moves after it
Conventions == {"then", "before", "then_inv", "before_inv"}

FrameAfter(conv, frame, r) ==
    IF conv \in {"then", "then_inv"} THEN mul(frame, r) ELSE mul(r, frame)

FrameFace(conv, frame, f) ==
    IF conv \in {"then", "before"} THEN apply(frame, f) ELSE apply(inv(frame), f)

RECURSIVE NetOfProgram(_, _, _, _, _)
NetOfProgram(conv, g, frame, out, i) ==
    IF i > Len(out) THEN g
    ELSE IF out[i][1] = "Rot"
        THEN NetOfProgram(conv, g, FrameAfter(conv, frame, out[i][2]), out, i + 1)
        ELSE NetOfProgram(conv, Turned(g, FrameFace(conv, frame, out[i][2].face), out[i][2].by),
                          frame, out, i + 1)

\* the net effect of a program: rotations re-orient the moves after them and a
\* trailing rotation moves nothing
NetOut(conv, out) == NetOfProgram(conv, Solved, ID, out, 1)

IsSome(o) == o[1] = "Some"

Count(seq, P(_)) == Cardinality({i \in 1..Len(seq) : P(seq[i])})

IsTurn(e) == e[1] = "Move" /\ e[2].by # 0
IsRot(e) == e[1] = "Rot"
NonZero(m) == m.by # 0

\* the cost of a program: its non-identity face turns
Cost(out) == Count(out, IsTurn)

Legal(a) == \A i \in 1..Len(a) : a[i].by # 0

Done == pc = "done"

Mv(f, by) == <<"Move", MoveNew(f, by)>>

(***************************************************************************)
(* Properties of solve                                                     *)
(***************************************************************************)

\* C1: whenever solve returns Some(out), the net effect of out on the cube
\* (rotations re-orienting the following moves, under some one convention)
\* equals the net effect of the moves of alg.
SemanticEquivalence ==
    (Done /\ IsSome(result)) =>
        \E conv \in Conventions : NetOut(conv, Unwrap(result)) = NetAlg(alg)

\* C2: for every input of legal face turns the root state is feasible and solve
\* returns Some.
RootAlwaysFeasible ==
    (Done /\ Legal(alg)) => (IsSome(aux) /\ IsSome(result))

\* the programs an exhaustive enumeration tries: up to BruteMaxLen entries, each
\* a non-identity face turn or a whole-cube rotation
BruteMaxLen == 1

BruteEntries ==
    {<<"Move", m>> : m \in {mm \in Move : mm.by # 0}} \cup {<<"Rot", r>> : r \in Rotation}

BrutePrograms == UNION {[1..n -> BruteEntries] : n \in 0..BruteMaxLen}

Equivalent(prog, a) == \E conv \in Conventions : NetOut(conv, prog) = NetAlg(a)

\* C3: whenever solve returns Some(out), out has at most as many non-identity
\* face turns as alg, and at most as many as any equivalent program found by
\* exhaustive enumeration.
CostMinimality ==
    (Done /\ IsSome(result)) =>
        /\ Cost(Unwrap(result)) <= Count(alg, NonZero)
        /\ \A prog \in BrutePrograms :
               Equivalent(prog, alg) => Cost(Unwrap(result)) <= Cost(prog)

\* C4: for every input of length 1 solve returns a program of cost at most 1,
\* and for [R] it returns Some([R]).
LengthOneCost ==
    (Done /\ Len(alg) = 1) =>
        /\ IsSome(result)
        /\ Cost(Unwrap(result)) <= 1
        /\ (alg = <<MoveNew("R", 1)>> => result = Some(<<Mv("R", 1)>>))

\* C5: for [R, R'] solve returns Some(out) with no non-identity face turn in out.
InverseCancels ==
    (Done /\ alg = <<MoveNew("R", 1), MoveNew("R", 3)>>) =>
        (IsSome(result) /\ Cost(Unwrap(result)) = 0)

\* C6: for [R, L] solve returns Some(out) of cost 2, the two turns of the X axis
\* emitted together.
OppositeFused ==
    (Done /\ alg = <<MoveNew("R", 1), MoveNew("L", 1)>>) =>
        /\ IsSome(result)
        /\ Cost(Unwrap(result)) = 2
        /\ Unwrap(result) \in {<<Mv("R", 1), Mv("L", 1)>>, <<Mv("L", 1), Mv("R", 1)>>}

\* C7: solve([]) returns Some([]): the result is present and holds no entry.
EmptyInputSolved ==
    (Done /\ alg = <<>>) => result = Some(<<>>)

EmptyInputDone == Done /\ alg = <<>> /\ aux = Some(<<0, None>>)

RootCost == Unwrap(aux)[1]

\* C8 as stated: the cost in the root cell is the number of Move entries of
\* non-zero amount in the returned program; Rotation entries add nothing.
RootCostCountsTurnsOnly ==
    (Done /\ IsSome(aux) /\ IsSome(result)) => RootCost = Cost(Unwrap(result))

\* C8 as amended: the cost in the root cell is the number of Move entries of
\* non-zero amount plus the number of Rotation entries of the returned program.
RootCostCountsEntries ==
    (Done /\ IsSome(aux)) =>
        /\ IsSome(result)
        /\ RootCost = Cost(Unwrap(result)) + Count(Unwrap(result), IsRot)

RotationEmitted ==
    /\ Done
    /\ IsSome(aux)
    /\ IsSome(result)
    /\ Count(Unwrap(result), IsRot) > 0
    /\ Cost(Unwrap(result)) > 0

(***************************************************************************)
(* Properties of the parser                                                *)
(***************************************************************************)
ClaimedAmount(rest) ==
    CASE rest = <<>> -> Ok(1)
      [] rest = <<"2">> -> Ok(2)
      [] rest = <<"'">> -> Ok(3)
      [] rest = <<"0">> -> Ok(0)
      [] OTHER -> Err("bad amount")

ClaimedParse(s) ==
    IF s = <<>> \/ s[1] \notin Face THEN Err("bad face")
    ELSE LET by == ClaimedAmount(Tail(s))
         IN  IF by[1] = "Ok" THEN Ok(MoveNew(s[1], by[2])) ELSE by

\* C9: parsing accepts one face letter followed by "", "2", "'" or "0" and
\* returns that (face, amount); any other first character is "bad face" and any
\* other suffix "bad amount".
ParseContract ==
    parsed # Idle => parsed = ClaimedParse(str)

(***************************************************************************)
(* Properties of the rotation action                                       *)
(***************************************************************************)
Applied == applied # Idle

\* C10 as stated: apply(ID, f) = f and apply(r * s, f) = apply(r, apply(s, f)).
ApplyComposesOuterFirst ==
    Applied => (applied[5] = face /\ applied[2] = applied[3])

\* C10 as amended: apply(ID, f) = f and apply(r * s, f) = apply(s, apply(r, f)):
\* the rotation written first acts first.
ApplyComposesInOrder ==
    Applied => (applied[5] = face /\ applied[2] = applied[4])

OrderMatters == Applied /\ applied[3] # applied[4] /\ rot_r # ID /\ rot_s # ID

(***************************************************************************)
(* The rotation group: three rotations are composed both ways round and    *)
(* the first is composed with ID and with its inverse.                     *)
(***************************************************************************)
InitGroup ==
    /\ rot_r \in Rotation
    /\ rot_s \in Rotation
    /\ rot_t \in Rotation
    /\ face = Idle /\ applied = Idle
    /\ mv = Idle /\ ax_a = Idle /\ ax_b = Idle /\ z_a = Idle /\ z_b = Idle /\ z_c = Idle
    /\ SolveIdle /\ ParseIdle

\* applied = <<"composed", r*s, s*r, (r*s)*t, r*(s*t), r*ID, ID*r, r*inv(r), inv(r)*r, inv(r)>>
Compose ==
    /\ applied = Idle
    /\ applied' = <<"composed",
                    mul(rot_r, rot_s),
                    mul(rot_s, rot_r),
                    mul(mul(rot_r, rot_s), rot_t),
                    mul(rot_r, mul(rot_s, rot_t)),
                    mul(rot_r, ID),
                    mul(ID, rot_r),
                    mul(rot_r, inv(rot_r)),
                    mul(inv(rot_r), rot_r),
                    inv(rot_r)>>
    /\ UNCHANGED <<rot_r, rot_s, rot_t, face, mv, ax_a, ax_b, z_a, z_b, z_c,
                   solveVars, parseVars>>

NextGroup == Compose

SpecGroup == InitGroup /\ [][NextGroup]_vars

Composed == applied[1] = "composed"

\* some pair of rotations of ALL does not commute
NonCommutative == \E r \in Rotation, s \in Rotation : mul(r, s) # mul(s, r)

\* C11: the 24 entries of ALL are pairwise distinct, ALL is closed under mul
\* and inv, ID is a two-sided identity, inv(r) a two-sided inverse, mul is
\* associative, and some pair of rotations does not commute.
RotationGroup ==
    /\ \A i \in 0..23, j \in 0..23 : ALL[i] = ALL[j] => i = j
    /\ NonCommutative
    /\ Composed =>
        /\ applied[2] \in Rotation /\ applied[3] \in Rotation /\ applied[10] \in Rotation
        /\ applied[4] = applied[5]
        /\ applied[6] = rot_r /\ applied[7] = rot_r
        /\ applied[8] = ID /\ applied[9] = ID

NonCommutingPair == Composed /\ applied[2] # applied[3] /\ applied[4] = applied[5]


(***************************************************************************)
(* Decomposition into axial rotations: a rotation is decomposed, or turned *)
(* further by one axial rotation.                                          *)
(***************************************************************************)
InitAxials ==
    /\ rot_r \in Rotation
    /\ rot_s = Idle /\ face = Idle /\ applied = Idle
    /\ SolveIdle /\ ParseIdle /\ OperandsIdle

\* applied = <<"axials", r.to_axials().collect()>>
ToAxials ==
    /\ applied[1] # "axials"
    /\ applied' = <<"axials", to_axials(rot_r)>>
    /\ UNCHANGED <<rot_r, rot_s, face, solveVars, parseVars, kernelVars>>

\* r * Rotation::axial(axis, by)
TurnAxial ==
    \E axis \in Axis, by \in Z4 :
        /\ rot_r' = mul(rot_r, axial(axis, by))
        /\ applied' = <<"axial", axis, by>>
        /\ UNCHANGED <<rot_s, face, solveVars, parseVars, kernelVars>>

NextAxials == ToAxials \/ TurnAxial

SpecAxials == InitAxials /\ [][NextAxials]_vars

Decomposed == applied[1] = "axials"

AxialsProduct(items) ==
    IF Len(items) = 0 THEN ID
    ELSE IF Len(items) = 1 THEN axial(items[1][1], items[1][2])
    ELSE mul(axial(items[1][1], items[1][2]), axial(items[2][1], items[2][2]))

FixesAFace(r) == \E f \in {"R", "U", "F"} : apply(r, f) = f

\* C12: to_axials(r) yields no item for ID, one item when r fixes one of R, U,
\* F and is not ID, two items otherwise; the product under mul of the yielded
\* axial rotations, in order, is r; the unwrap never fails.
AxialsDecompose ==
    Decomposed =>
        /\ applied[2] # Panicked
        /\ Len(applied[2]) = (IF rot_r = ID THEN 0 ELSE IF FixesAFace(rot_r) THEN 1 ELSE 2)
        /\ AxialsProduct(applied[2]) = rot_r

TwoAxials == Decomposed /\ applied[2] # Panicked /\ Len(applied[2]) = 2


(***************************************************************************)
(* Lifting a move to an axial-move, before and after a rotation.           *)
(***************************************************************************)
InitLift ==
    /\ mv \in Move
    /\ rot_r \in Rotation
    /\ rot_s = Idle /\ face = Idle /\ applied = Idle
    /\ rot_t = Idle /\ ax_a = Idle /\ ax_b = Idle /\ z_a = Idle /\ z_b = Idle /\ z_c = Idle
    /\ SolveIdle /\ ParseIdle

\* applied = <<"lifted", AxialMove::from(m) * r, AxialMove::from(m * r)>>
Lift ==
    /\ applied = Idle
    /\ applied' = <<"lifted",
                    AxialMoveMul(AxialMoveFrom(mv), rot_r),
                    AxialMoveFrom(MoveMul(mv, rot_r))>>
    /\ UNCHANGED <<rot_r, rot_s, face, solveVars, parseVars, kernelVars>>

NextLift == Lift

SpecLift == InitLift /\ [][NextLift]_vars

Lifted == applied[1] = "lifted"

\* the axial-move a moved to the image of its axis, with (pos, neg) swapped
\* exactly when the positive face of the axis lands on a negative face
SwapWhenFlipped(a, r) ==
    LET img == apply(r, FaceNew(a.axis, FALSE))
    IN  IF FaceNeg(img)
            THEN AxialMoveNew(FaceAxis(img), a.neg, a.pos)
            ELSE AxialMoveNew(FaceAxis(img), a.pos, a.neg)

\* C13: AxialMove::from(m) * r = AxialMove::from(m * r) for every move m and
\* rotation r, the action swapping (pos, neg) exactly when r sends the positive
\* face of the axis to a negative face.
LiftCommutes ==
    Lifted =>
        /\ applied[2] = applied[3]
        /\ applied[2] = SwapWhenFlipped(AxialMoveFrom(mv), rot_r)

LiftedWithSwap ==
    /\ Lifted
    /\ mv.by # 0
    /\ FaceNeg(apply(rot_r, mv.face)) # FaceNeg(mv.face)
    /\ FaceAxis(apply(rot_r, mv.face)) # FaceAxis(mv.face)


(***************************************************************************)
(* Axial-move arithmetic: two axial-moves built by new are added, negated, *)
(* subtracted, rotated, or replaced by the lift of a move.                 *)
(***************************************************************************)
AxialMoves == {AxialMoveNew(axis, p, n) : axis \in Axis, p \in Z4, n \in Z4}

InitAxialMove ==
    /\ ax_a \in AxialMoves
    /\ ax_b \in AxialMoves
    /\ applied = Idle
    /\ rot_r = Idle /\ rot_s = Idle /\ face = Idle
    /\ rot_t = Idle /\ mv = Idle /\ z_a = Idle /\ z_b = Idle /\ z_c = Idle
    /\ SolveIdle /\ ParseIdle

axialRest == <<rot_r, rot_s, face, rot_t, mv, z_a, z_b, z_c, solveVars, parseVars>>

\* applied = <<"sum", a.add(b), b.add(a), a.add(ZERO), ZERO.add(a), a.add(a.inv()),
\*             a.inv().inv(), a.inv()>>
AddChecked ==
    /\ applied = Idle
    /\ applied' = <<"sum",
                    AxialMoveAdd(ax_a, ax_b),
                    AxialMoveAdd(ax_b, ax_a),
                    AxialMoveAdd(ax_a, ZERO),
                    AxialMoveAdd(ZERO, ax_a),
                    AxialMoveAdd(ax_a, AxialMoveInv(ax_a)),
                    AxialMoveInv(AxialMoveInv(ax_a)),
                    AxialMoveInv(ax_a)>>
    /\ UNCHANGED <<ax_a, ax_b, axialRest>>

\* a = a + b; the panic of the unwrap ends the run
AddInto ==
    /\ AddOp(ax_a, ax_b) # Panic
    /\ ax_a' = AddOp(ax_a, ax_b)
    /\ applied' = Idle
    /\ UNCHANGED <<ax_b, axialRest>>

\* a = a - b
SubInto ==
    /\ SubOp(ax_a, ax_b) # Panic
    /\ ax_a' = SubOp(ax_a, ax_b)
    /\ applied' = Idle
    /\ UNCHANGED <<ax_b, axialRest>>

\* b = -b
Negate ==
    /\ ax_b' = NegOp(ax_b)
    /\ applied' = Idle
    /\ UNCHANGED <<ax_a, axialRest>>

\* a = a * r
RotateAxial ==
    \E r \in Rotation :
        /\ ax_a' = AxialMoveMul(ax_a, r)
        /\ applied' = Idle
        /\ UNCHANGED <<ax_b, axialRest>>

\* b = AxialMove::from(m)
FromMove ==
    \E m \in Move :
        /\ ax_b' = AxialMoveFrom(m)
        /\ applied' = Idle
        /\ UNCHANGED <<ax_a, axialRest>>

NextAxialMove == AddChecked \/ AddInto \/ SubInto \/ Negate \/ RotateAxial \/ FromMove

SpecAxialMove == InitAxialMove /\ [][NextAxialMove]_vars

Summed == applied[1] = "sum"

ComponentSum(a, b) ==
    AxialMoveNew(IF is_zero(a) THEN b.axis ELSE a.axis, Z4add(a.pos, b.pos), Z4add(a.neg, b.neg))

\* C14: add(a, b) is None exactly when a and b are both non-zero and on
\* different axes, and the component-wise Z4 sum otherwise; the addition is
\* commutative, ZERO is its identity, a + (-a) = ZERO and -(-a) = a.
AxialAddLaws ==
    Summed =>
        /\ (applied[2] = None) <=> (~is_zero(ax_a) /\ ~is_zero(ax_b) /\ ax_a.axis # ax_b.axis)
        /\ applied[2] # None => applied[2] = Some(ComponentSum(ax_a, ax_b))
        /\ applied[2] = applied[3]
        /\ applied[4] = Some(ax_a) /\ applied[5] = Some(ax_a)
        /\ applied[6] = Some(ZERO)
        /\ applied[7] = ax_a

MismatchedAxes == Summed /\ applied[2] = None

IsCanonical(a) == is_zero(a) => a.axis = "X"

\* C15: every AxialMove produced by new, From<Move>, inv, add, sub or the
\* rotation action has axis X when both amounts are zero, so two values are
\* equal iff their DP indices are equal, and a zero value has the index of
\* (X, 0, 0).
CanonicalZero ==
    /\ IsCanonical(ax_a) /\ IsCanonical(ax_b)
    /\ (ax_a = ax_b) <=> (AxialMoveIndex(ax_a) = AxialMoveIndex(ax_b))
    /\ is_zero(ax_a) => AxialMoveIndex(ax_a) = AxialMoveIndex(AxialMoveRaw("X", 0, 0))
    /\ Summed =>
        /\ applied[2] # None => IsCanonical(Unwrap(applied[2]))
        /\ IsCanonical(Unwrap(applied[6])) /\ IsCanonical(applied[7]) /\ IsCanonical(applied[8])

ZeroFromOtherAxis ==
    /\ Summed /\ ax_a.axis = "Y" /\ ax_b.axis = "Y" /\ ~is_zero(ax_a)
    /\ applied[2] = Some(ZERO)


(***************************************************************************)
(* Z4 arithmetic on three operands, with data/z4.rs and with types.rs.     *)
(***************************************************************************)
InitZ4 ==
    /\ z_a \in Z4
    /\ z_b \in Z4
    /\ z_c \in Z4
    /\ RotIdle /\ ParseIdle /\ SolveIdle
    /\ rot_t = Idle /\ mv = Idle /\ ax_a = Idle /\ ax_b = Idle

\* applied = <<"z4", a+b, b+a, (a+b)+c, a+(b+c), a+(-a), -a, a-b>>
Z4Ops ==
    /\ applied = Idle
    /\ applied' = <<"z4",
                    Z4add(z_a, z_b),
                    Z4add(z_b, z_a),
                    Z4add(Z4add(z_a, z_b), z_c),
                    Z4add(z_a, Z4add(z_b, z_c)),
                    Z4add(z_a, Z4neg(z_a)),
                    Z4neg(z_a),
                    Z4sub(z_a, z_b)>>
    /\ UNCHANGED <<z_a, z_b, z_c, rot_r, rot_s, face, rot_t, mv, ax_a, ax_b,
                   solveVars, parseVars>>

\* the same with the Z4 of types.rs
TypesZ4Ops ==
    /\ applied = Idle
    /\ applied' = <<"types_z4",
                    TypesZ4add(z_a, z_b),
                    TypesZ4add(z_b, z_a),
                    TypesZ4add(TypesZ4add(z_a, z_b), z_c),
                    TypesZ4add(z_a, TypesZ4add(z_b, z_c)),
                    TypesZ4add(z_a, TypesZ4neg(z_a)),
                    TypesZ4neg(z_a),
                    TypesZ4sub(z_a, z_b)>>
    /\ UNCHANGED <<z_a, z_b, z_c, rot_r, rot_s, face, rot_t, mv, ax_a, ax_b,
                   solveVars, parseVars>>

NextZ4 == Z4Ops \/ TypesZ4Ops

SpecZ4 == InitZ4 /\ [][NextZ4]_vars

Z4Done == applied[1] = "z4" \/ applied[1] = "types_z4"

NegTable == <<0, 3, 2, 1>>

\* C16: a + b = (a + b) mod 4, a + b = b + a, (a+b)+c = a+(b+c), a + (-a) = 0,
\* -0 = 0, -1 = 3, -2 = 2, -3 = 1, and sub(a, b) = a + (-b).
Z4Group ==
    Z4Done =>
        /\ applied[2] = (z_a + z_b) % 4
        /\ applied[2] = applied[3]
        /\ applied[4] = applied[5]
        /\ applied[6] = 0
        /\ applied[7] = NegTable[z_a + 1]
        /\ applied[8] = (z_a + NegTable[z_b + 1]) % 4

Z4Wraps == applied[1] = "z4" /\ z_a + z_b > 3 /\ z_a # z_b /\ z_c # 0

(***************************************************************************)
(* solve, thread by thread: for each level sz a scope spawns one task per  *)
(* (l, rotation); a task fills its 3 * 4 * 4 cells; the scope joins when   *)
(* every task has finished; reconstruct runs after the last level.  aux is *)
(* the table itself, one slot per index of Runtime (n + 1, n + 1, (), ()). *)
(***************************************************************************)
\* how far the oldest running task may lag behind the next task to spawn
MaxAhead == 1

FillInputs == {<<>>, <<MoveNew("R", 1)>>}

\* the tasks of the scope of level sz are numbered in spawn order:
\* for l in 0..=(n - sz) { for rotation in Rotation::ALL { scope.spawn(..) } }
NumTasks(n, sz) == (n - sz + 1) * RotationSize

task_l(t) == t \div RotationSize

task_rotation(t) == ALL[t % RotationSize]

\* the j-th index of a task that always takes the first rotation
task_idx_shared(sz, t, j) ==
    <<task_l(t), task_l(t) + sz, ALL[0],
      AxialMoveNew(AxisList[(j \div 16) + 1], Z4ALL[((j \div 4) % 4) + 1], Z4ALL[(j % 4) + 1])>>

\* the j-th index (l, r, rotation, ax) the loops of task t reach, j = 0..47
task_idx(sz, t, j) ==
    <<task_l(t), task_l(t) + sz, task_rotation(t),
      AxialMoveNew(AxisList[(j \div 16) + 1], Z4ALL[((j \div 4) % 4) + 1], Z4ALL[(j % 4) + 1])>>

TaskSteps == 3 * 4 * 4

\* Ctx::set
ctx_set(ctx, idx, val) == [ctx EXCEPT !.aux[to_index(idx, Len(ctx.alg))] = val]

\* ctx.set(idx, val) with the value val of compute(ctx, idx): a panic inside
\* compute ends the thread; the slot keeps what went wrong
stored(ctx, idx, val) ==
    IF Failure(val) THEN [ctx_set(ctx, idx, val) EXCEPT !.panicked = TRUE]
    ELSE ctx_set(ctx, idx, val)

\* ctx.set(idx, compute(ctx, idx))
set_computed(ctx, idx) == stored(ctx, idx, compute(ctx, idx))

\* the iterations lo..hi of the loops of the spawned closure, in order, walked
\* by halves; the Ctx after them
RECURSIVE run_task(_, _, _, _)
run_task(ctx, t, lo, hi) ==
    IF ctx.panicked THEN ctx
    ELSE IF lo = hi THEN set_computed(ctx, task_idx(ctx.up_to_sz, t, lo))
    ELSE run_task(run_task(ctx, t, lo, (lo + hi) \div 2), t, ((lo + hi) \div 2) + 1, hi)

\* the slots task t of level sz writes
task_slots(n, sz, t) == {to_index(task_idx(sz, t, j), n) : j \in 0..(TaskSteps - 1)}

\* the history after task t of level sz has written slots
written(w, slots, sz, t) == w \cup {<<s, sz, t>> : s \in slots}

\* Ctx::new: every slot MaybeUninit::uninit(), up_to_sz 0
InitFill ==
    /\ alg \in FillInputs
    /\ pc = "scope"
    /\ up_to_sz = 0
    /\ aux = [s \in 0..(size(Len(alg)) - 1) |-> Uninit]
    /\ result = Idle
    /\ tasks = [spawned |-> 0, running |-> {}]
    /\ writers = {}
    /\ KernelIdle

\* scope.spawn: the next (l, rotation) of the loops gets its thread
Spawn ==
    /\ pc = "scope"
    /\ tasks.spawned < NumTasks(Len(alg), up_to_sz)
    /\ \A t \in tasks.running : tasks.spawned - t <= MaxAhead
    /\ tasks' = [spawned |-> tasks.spawned + 1, running |-> tasks.running \cup {tasks.spawned}]
    /\ UNCHANGED <<alg, pc, up_to_sz, aux, result, writers, parseVars, rotVars, kernelVars>>

\* a running task does its loops and ends
RunTask(t) ==
    /\ pc = "scope"
    /\ t \in tasks.running
    /\ aux' = run_task(Ctx(alg, aux, up_to_sz), t, 0, TaskSteps - 1).aux
    /\ writers' = written(writers, task_slots(Len(alg), up_to_sz, t), up_to_sz, t)
    /\ tasks' = [tasks EXCEPT !.running = @ \ {t}]
    /\ UNCHANGED <<alg, pc, up_to_sz, result, parseVars, rotVars, kernelVars>>

\* a scope that does not wait for its threads
JoinEarly ==
    /\ pc = "scope"
    /\ up_to_sz' = up_to_sz + 1
    /\ tasks' = [spawned |-> 0, running |-> {}]
    /\ pc' = IF up_to_sz = Len(alg) THEN "reconstruct" ELSE "scope"
    /\ UNCHANGED <<alg, aux, result, writers, parseVars, rotVars, kernelVars>>

\* a scope that ends once every thread is spawned and drops those still running
JoinDetached ==
    /\ pc = "scope"
    /\ tasks.spawned = NumTasks(Len(alg), up_to_sz)
    /\ up_to_sz' = up_to_sz + 1
    /\ tasks' = [spawned |-> 0, running |-> {}]
    /\ pc' = IF up_to_sz = Len(alg) THEN "reconstruct" ELSE "scope"
    /\ UNCHANGED <<alg, aux, result, writers, parseVars, rotVars, kernelVars>>

\* the scope ends when every thread it spawned has ended; ctx.increment_sz()
Join ==
    /\ pc = "scope"
    /\ tasks.spawned = NumTasks(Len(alg), up_to_sz)
    /\ tasks.running = {}
    /\ up_to_sz' = up_to_sz + 1
    /\ tasks' = [spawned |-> 0, running |-> {}]
    /\ pc' = IF up_to_sz = Len(alg) THEN "reconstruct" ELSE "scope"
    /\ UNCHANGED <<alg, aux, result, writers, parseVars, rotVars, kernelVars>>

\* reconstruct(&ctx, (0, n, Rotation::ID, AxialMove::ZERO))
ReconstructFill ==
    /\ pc = "reconstruct"
    /\ result' = reconstruct(Ctx(alg, aux, up_to_sz), RootIdx(alg),
                             get_full(Ctx(alg, aux, up_to_sz), RootIdx(alg)))
    /\ pc' = "done"
    /\ UNCHANGED <<alg, up_to_sz, aux, tasks, writers, parseVars, rotVars, kernelVars>>

NextFill == Spawn \/ (\E t \in tasks.running : RunTask(t)) \/ Join \/ ReconstructFill

SpecFill == InitFill /\ [][NextFill]_vars

\* the cells (l, r, rot, ax) of width w of an input of length n
Cells(n, w) == {<<l, l + w, rot, ax>> : l \in 0..(n - w), rot \in Rotation, ax \in AxialMoves}

\* the width r - l of the cell a slot belongs to
SlotWidth(s, n) ==
    ((s \div (RotationSize * AxialMoveSize)) % (n + 1))
        - (s \div ((n + 1) * RotationSize * AxialMoveSize))

\* the number of the task spawned for (l, rot)
TaskOf(c) == c[1] * RotationSize + index(c[3])

NoPrematureRead == result # Premature /\ \A s \in DOMAIN aux : aux[s] # Premature

\* when a scope starts, and when reconstruct does, every cell of the levels
\* below has been written, by the task of its level spawned for its (l, rot)
JoinedLevelsWritten ==
    tasks.spawned = 0 =>
        \A w \in 0..(up_to_sz - 1) : \A c \in Cells(Len(alg), w) :
            /\ aux[to_index(c, Len(alg))] # Uninit
            /\ <<to_index(c, Len(alg)), w, TaskOf(c)>> \in writers

\* a step changes slots of the level being filled only
JoinedStay == \A s \in DOMAIN aux : aux'[s] # aux[s] => SlotWidth(s, Len(alg)) = up_to_sz

\* C17: no DP cell is read before it is final.  get_full answers Premature for
\* a cell with l' > r', of a width not below the level being filled (at most n
\* in reconstruct) or never written, and that value is handed on into whatever
\* is stored or returned: no slot and no result ever holds it.  Every cell of a
\* joined level was written before the join, by a task of that level, and no
\* step changes a slot of a joined level.
NoReadBeforeFinal == [](NoPrematureRead /\ JoinedLevelsWritten) /\ [][JoinedStay]_vars

\* the fill of a one-move input stored a choice, found by reading two cells of
\* level 0, and reconstruct has read the root slot
ReadAndReconstructed ==
    /\ pc = "done"
    /\ Len(alg) = 1
    /\ \E c \in Cells(1, 1) :
        /\ aux[to_index(c, 1)] # None
        /\ Unwrap(aux[to_index(c, 1)])[2] # None

\* the l and the rotation index of the cell a slot belongs to
SlotL(s, n) == s \div ((n + 1) * RotationSize * AxialMoveSize)

SlotRot(s) == (s \div AxialMoveSize) % RotationSize

\* a write <<slot, level, task>> is of a cell of the level's width, made by the
\* task spawned for the cell's (l, rot)
OwnWrite(w) ==
    /\ SlotWidth(w[1], Len(alg)) = w[2]
    /\ SlotL(w[1], Len(alg)) = task_l(w[3])
    /\ SlotRot(w[1]) = index(task_rotation(w[3]))

\* C18: single-writer partition.  Every write made so far went to a cell of the
\* width of the level being filled, from the task spawned for the cell's
\* (l, rot); no slot has been written by two tasks; the tasks running at the
\* same time write disjoint sets of slots; and once a scope has joined, every
\* cell of its level has its one writer.
SingleWriter ==
    /\ \A w \in writers : OwnWrite(w)
    /\ Cardinality({w[1] : w \in writers}) = Cardinality(writers)
    /\ \A t1 \in tasks.running : \A t2 \in tasks.running \ {t1} :
        task_slots(Len(alg), up_to_sz, t1) \cap task_slots(Len(alg), up_to_sz, t2) = {}
    /\ tasks.spawned = 0 =>
        \A w \in 0..(up_to_sz - 1) : \A c \in Cells(Len(alg), w) :
            <<to_index(c, Len(alg)), w, TaskOf(c)>> \in writers

\* two tasks of the scope of level 1 are running and a third has written its cells
TwoRunningOneWritten ==
    /\ up_to_sz = 1
    /\ Cardinality(tasks.running) = 2
    /\ \E w \in writers : w[2] = 1

\* C19: axis compatibility by construction.  A panicking Add or Sub inside
\* apply_choice makes compute, or reconstruct, end in Panicked, which the slot
\* or the result then holds: none ever does.
NoAxisPanic == result # Panicked /\ \A s \in DOMAIN aux : aux[s] # Panicked

\* a cell of width 1 with a non-zero ax has a stored choice: compute went
\* through all 384 choices of the cell, each with its sums of lifted and t1
\* and its difference from the non-zero t0
NonZeroTargetChosen ==
    \E c \in Cells(1, 1) :
        /\ Len(alg) = 1
        /\ ~is_zero(c[4])
        /\ aux[to_index(c, 1)] \notin {Uninit, None}
        /\ Unwrap(aux[to_index(c, 1)])[2] # None

\* the value the base cases of the claim give the cell c, Uninit where they give none
BaseExpected(c) ==
    IF c[1] = c[2]
        THEN IF ~is_zero(c[4]) THEN None
             ELSE IF c[3] = ID THEN Some(<<0, None>>)
             ELSE Some(<<1, None>>)
    ELSE IF ~is_zero(c[4]) /\ AxisMul(MoveAxis(alg[c[1] + 1]), c[3]) # c[4].axis THEN None
    ELSE Uninit

\* C20: base cases.  Every written cell with l = r holds cost 0 without a choice
\* (ax zero, rot = ID), cost 1 without a choice (ax zero, rot # ID) or None (ax
\* non-zero); every written cell with l < r, a non-zero ax and
\* axis(alg[l]) * rot # ax.axis holds None.
BaseCells ==
    \A w \in 0..Len(alg) : \A c \in Cells(Len(alg), w) :
        \/ aux[to_index(c, Len(alg))] = Uninit
        \/ BaseExpected(c) = Uninit
        \/ aux[to_index(c, Len(alg))] = BaseExpected(c)

\* the three kinds of empty-interval cell and a mismatched-axis cell of width 1
\* have all been written
BaseCellsWritten ==
    /\ Len(alg) = 1
    /\ \E c \in Cells(1, 0) : aux[to_index(c, 1)] = Some(<<0, None>>)
    /\ \E c \in Cells(1, 0) : aux[to_index(c, 1)] = Some(<<1, None>>)
    /\ \E c \in Cells(1, 0) : ~is_zero(c[4]) /\ aux[to_index(c, 1)] = None
    /\ \E c \in Cells(1, 1) :
        /\ ~is_zero(c[4])
        /\ AxisMul(MoveAxis(alg[1]), c[3]) # c[4].axis
        /\ aux[to_index(c, 1)] = None

(***************************************************************************)
(* compute on one cell: the cell (0, n, rot_r, ax_a) of a filled table.    *)
(***************************************************************************)
MaxWideRot == 4

CellInputs ==
    {<<MoveNew("R", 1)>>, <<MoveNew("R", 0)>>, <<MoveNew("U", 2)>>,
     <<MoveNew("R", 1), MoveNew("R", 3)>>, <<MoveNew("R", 1), MoveNew("U", 3)>>,
     <<MoveNew("R", 0), MoveNew("R", 1)>>}

CellTargets ==
    {ZERO, AxialMoveNew("Y", 2, 0), AxialMoveNew("Y", 0, 2)}
        \cup {AxialMoveNew(axis, 1, 0) : axis \in Axis} \cup {AxialMoveNew(axis, 0, 1) : axis \in Axis}

CellIdx == <<0, Len(alg), rot_r, ax_a>>

InitCell ==
    /\ alg \in CellInputs
    /\ rot_r \in Rotation
    /\ ax_a \in CellTargets
    /\ Len(alg) > 1 => index(rot_r) < MaxWideRot /\ ax_a = ZERO
    /\ pc = "cell"
    /\ aux = Uninit
    /\ up_to_sz = Idle /\ result = Idle /\ tasks = Idle /\ writers = Idle
    /\ rot_s = Idle /\ face = Idle /\ applied = Idle
    /\ rot_t = Idle /\ mv = Idle /\ ax_b = Idle /\ z_a = Idle /\ z_b = Idle /\ z_c = Idle
    /\ ParseIdle

\* aux records what the task of the cell's level sets into its slot
ComputeCell ==
    /\ pc = "cell"
    /\ aux' = compute(FilledCtx(alg), CellIdx)
    /\ pc' = "computed"
    /\ UNCHANGED <<alg, up_to_sz, result, tasks, writers, parseVars, rotVars, kernelVars>>

NextCell == ComputeCell

SpecCell == InitCell /\ [][NextCell]_vars

\* the choices of a cell, and the place of a choice in the order of the loops
Choices(a, idx) ==
    {choice_at(a, idx, k, ALL[i], t1_p, t1_n) :
        k \in (idx[1] + 1)..idx[2], i \in 0..23, t1_p \in Z4, t1_n \in Z4}

choice_rank(ch) == ((ch[1] * RotationSize + index(ch[2])) * 4 + ch[3].pos) * 4 + ch[3].neg

\* <<rank, cost, choice>> of every choice with both children feasible
Feasible(ctx, idx) ==
    {x \in {<<choice_rank(ch), choice_new(ctx, apply_choice(ctx.alg, idx, ch)), ch>> :
                ch \in Choices(ctx.alg, idx)} : x[2] # None}

LeastCost(F) == CHOOSE m \in {Unwrap(x[2]) : x \in F} : \A x \in F : m <= Unwrap(x[2])

Attaining(F, m) == {x \in F : Unwrap(x[2]) = m}

FirstOf(A) == CHOOSE x \in A : \A y \in A : x[1] <= y[1]

MinimumOf(F) ==
    IF F = {} THEN None
    ELSE Some(<<LeastCost(F), Some(FirstOf(Attaining(F, LeastCost(F)))[3])>>)

NonBaseComputed == pc = "computed" /\ base_case(alg, CellIdx) = None

\* C21: the value compute gives a non-base cell is the least, over the choices
\* with two feasible children, of [by(alg[l]) # 0] + cost(left) + cost(right),
\* with the first such choice in the order k, r1 (as in ALL), t1.pos, t1.neg;
\* it is None exactly when no choice has two feasible children.
MinimalFirstChoice == NonBaseComputed => aux = MinimumOf(Feasible(FilledCtx(alg), CellIdx))

\* a cell of width 2 whose least cost is attained by several choices
TiedMinimum ==
    /\ NonBaseComputed
    /\ Len(alg) = 2
    /\ aux # None
    /\ Cardinality(Attaining(Feasible(FilledCtx(alg), CellIdx), Unwrap(aux)[1])) > 1

\* the cells of the widths below sz hold what compute gives them on a table
\* filled in sequence
LevelsAsSequential(sz) ==
    \A w \in 0..(sz - 1) : \A c \in Cells(Len(alg), w) :
        aux[to_index(c, Len(alg))] = compute(FilledCtx(alg), c)

\* C22: scheduling independence.  Whatever the order in which the threads of a
\* level ran, after the join of a level its cells, and at the end every cell
\* and the program returned, are those of the sequential computation.
ScheduleIndependent ==
    /\ pc = "scope" /\ tasks.spawned = 0 => LevelsAsSequential(Min(up_to_sz, Len(alg)))
    /\ pc = "done" =>
        /\ LevelsAsSequential(Len(alg) + 1)
        /\ result = reconstruct(FilledCtx(alg), RootIdx(alg), get_full(FilledCtx(alg), RootIdx(alg)))

\* solve has returned for a one-move input after every thread of both levels wrote
AllThreadsDone ==
    /\ pc = "done"
    /\ Len(alg) = 1
    /\ {w[3] : w \in {x \in writers : x[2] = 0}} = 0..(NumTasks(1, 0) - 1)
    /\ {w[3] : w \in {x \in writers : x[2] = 1}} = 0..(NumTasks(1, 1) - 1)

(***************************************************************************)
(* dp.rs: the index as dp_tuple! computes it, component by component.  A   *)
(* key is given as the sequence of its components' to_index values, v as   *)
(* the sequence of their sizes.                                            *)
(***************************************************************************)
MaxIndexLen == 2

RECURSIVE dp_size(_, _, _)
dp_size(v, i, sz) == IF i > Len(v) THEN sz ELSE dp_size(v, i + 1, sz * v[i])

\* dp_tuple! adding the component before scaling by its size
RECURSIVE dp_to_index_add_first(_, _, _, _)
dp_to_index_add_first(key, v, i, idx) ==
    IF i > Len(key) THEN idx
    ELSE dp_to_index_add_first(key, v, i + 1, (idx + key[i]) * v[i])

RECURSIVE dp_to_index(_, _, _, _)
dp_to_index(key, v, i, idx) ==
    IF i > Len(key) THEN idx
    ELSE dp_to_index(key, v, i + 1, idx * v[i] + key[i])

AxisSize == 3
Z4Size == 4

\* dp_as!: AxialMove as (Axis, Z4, Z4)
AxialMoveDpSize == dp_size(<<AxisSize, Z4Size, Z4Size>>, 1, 1)
AxialMoveDpIndex(a) == dp_to_index(<<AxisOrd(a.axis), a.pos, a.neg>>, <<AxisSize, Z4Size, Z4Size>>, 1, 0)

\* Idx = (usize, usize, Rotation, AxialMove); a usize key not below its size
\* fails the debug assertion
IdxSize(n) == dp_size(<<n + 1, n + 1, RotationSize, AxialMoveDpSize>>, 1, 1)

IdxToIndex(idx, n) ==
    IF idx[1] >= n + 1 \/ idx[2] >= n + 1 THEN Panicked
    ELSE dp_to_index(<<idx[1], idx[2], indexMAP[idx[3]], AxialMoveDpIndex(idx[4])>>,
                     <<n + 1, n + 1, RotationSize, AxialMoveDpSize>>, 1, 0)

IndexInputs == {[i \in 1..n |-> MoveNew("R", 1)] : n \in 0..MaxIndexLen}

InitIndex ==
    /\ alg \in IndexInputs
    /\ rot_r \in Rotation
    /\ ax_a \in AxialMoves
    /\ applied = Idle
    /\ pc = Idle /\ up_to_sz = Idle /\ aux = Idle /\ result = Idle /\ tasks = Idle /\ writers = Idle
    /\ rot_s = Idle /\ face = Idle
    /\ rot_t = Idle /\ mv = Idle /\ ax_b = Idle /\ z_a = Idle /\ z_b = Idle /\ z_c = Idle
    /\ ParseIdle

\* applied = <<"index", l, r, the index of (l, r, rot_r, ax_a)>>
Address ==
    /\ applied = Idle
    /\ \E l \in 0..Len(alg), r \in 0..Len(alg) :
        applied' = <<"index", l, r, IdxToIndex(<<l, r, rot_r, ax_a>>, Len(alg))>>
    /\ UNCHANGED <<rot_r, rot_s, face, solveVars, parseVars, kernelVars>>

NextIndex == Address

SpecIndex == InitIndex /\ [][NextIndex]_vars

Addressed == applied # Idle /\ applied[1] = "index"

\* the state a flat index stands for, read off its mixed-radix digits
StateAt(s, n) ==
    <<s \div ((n + 1) * 24 * 48),
      (s \div (24 * 48)) % (n + 1),
      ALL[(s \div 48) % 24],
      AxialMoveNew(AxisList[((s % 48) \div 16) + 1], (s \div 4) % 4, s % 4)>>

\* C23: DP addressing.  In a table for input length n the state (l, r, rot, ax)
\* has index ((l*(n+1) + r)*24 + ordinal(rot))*48 + (axis*4 + pos)*4 + neg,
\* below (n+1)^2*24*48, the size of the table; the state is read back from its
\* index, so distinct states have distinct indices, and ALL[ordinal(rot)] = rot.
IndexIsMixedRadix ==
    Addressed =>
        /\ applied[4] = ((applied[2] * (Len(alg) + 1) + applied[3]) * 24 + index(rot_r)) * 48
                            + (AxisOrd(ax_a.axis) * 4 + ax_a.pos) * 4 + ax_a.neg
        /\ applied[4] = to_index(<<applied[2], applied[3], rot_r, ax_a>>, Len(alg))
        /\ applied[4] < (Len(alg) + 1) * (Len(alg) + 1) * 24 * 48
        /\ IdxSize(Len(alg)) = (Len(alg) + 1) * (Len(alg) + 1) * 24 * 48
        /\ size(Len(alg)) = IdxSize(Len(alg))
        /\ StateAt(applied[4], Len(alg)) = <<applied[2], applied[3], rot_r, ax_a>>
        /\ index(rot_r) \in 0..23 /\ ALL[index(rot_r)] = rot_r

\* the last slot of the largest table is addressed
LastSlotAddressed ==
    /\ Addressed
    /\ Len(alg) = MaxIndexLen
    /\ applied[4] = IdxSize(Len(alg)) - 1
    /\ applied[2] = MaxIndexLen /\ applied[3] = MaxIndexLen

Feasibly(v) == v \notin {None, Panicked, Premature}

\* the walk of reconstruct from the cell idx holding v: a non-base cell holds a
\* choice whose two children are feasible and walked in turn; a leaf is an
\* empty interval with a zero ax, which gives no entry for ID and one Rot entry
\* for another rotation
RECURSIVE WalkOK(_, _, _)

ChildrenOK(ctx, ac) ==
    /\ ac # Panicked
    /\ Feasibly(ctx_get(ctx, ac[2])) /\ Feasibly(ctx_get(ctx, ac[3]))
    /\ WalkOK(ctx, ac[2], get_full(ctx, ac[2]))
    /\ WalkOK(ctx, ac[3], get_full(ctx, ac[3]))

WalkOK(ctx, idx, v) ==
    IF idx[1] = idx[2]
        THEN /\ is_zero(idx[4])
             /\ reconstruct(ctx, idx, v)
                    = Some(IF idx[3] = ID THEN <<>> ELSE <<<<"Rot", idx[3]>>>>)
        ELSE /\ base_case(ctx.alg, idx) = None
             /\ Feasibly(v)
             /\ Unwrap(v)[2] # None
             /\ ChildrenOK(ctx, apply_choice(ctx.alg, idx, Unwrap(Unwrap(v)[2])))

\* C24: solve returns None exactly when the root cell is None, and never
\* panics; when the root cell holds a cost, every non-base cell on the walk of
\* reconstruct holds a choice with two feasible children, and every leaf emits
\* nothing for ID and one Rot entry otherwise.
RootDecidesResult ==
    pc = "done" =>
        /\ result # Panicked /\ result # Premature
        /\ result = None <=> aux = None
        /\ aux # None => WalkOK(FilledCtx(alg), RootIdx(alg), aux)

\* a two-move input was solved through a leaf with a rotation
WalkThroughRotation ==
    /\ pc = "done"
    /\ tasks = Idle
    /\ Len(alg) = 2
    /\ result # None
    /\ \E i \in 1..Len(Unwrap(result)) : Unwrap(result)[i][1] = "Rot"

IsMoveEntry(e) == e[1] = "Move"

EntryMove(e) == e[2]

RECURSIVE MapSeq(_, _, _)
MapSeq(seq, i, acc) ==
    IF i > Len(seq) THEN acc ELSE MapSeq(seq, i + 1, Append(acc, EntryMove(seq[i])))

\* the moves of the Move entries of a program, in order
MoveEntries(out) == MapSeq(SelectSeq(out, IsMoveEntry), 1, <<>>)

\* C25: when solve returns Some(out), the Move entries of out are the moves of
\* alg with a non-zero amount, same faces, same amounts, same order; every
\* other entry of out is a Rotation entry.
MovesPreserved ==
    (Done /\ Feasibly(result)) =>
        /\ MoveEntries(Unwrap(result)) = SelectSeq(alg, NonZero)
        /\ \A i \in 1..Len(Unwrap(result)) : IsMoveEntry(Unwrap(result)[i]) \/ IsRot(Unwrap(result)[i])

\* two non-zero moves come back with a Rotation entry between them
RotationBetweenMoves ==
    /\ Done
    /\ Feasibly(result)
    /\ Len(alg) = 2
    /\ Len(Unwrap(result)) >= 3
    /\ IsMoveEntry(Unwrap(result)[1]) /\ IsRot(Unwrap(result)[2]) /\ IsMoveEntry(Unwrap(result)[3])

=============================================================================
